---- MODULE Spec2Model ----
(***************************************************************************)
(* Seen-post tracking of src/maxine/seen-posts.ts: the class               *)
(* IdbWithInMemoryCache (a Map in front of the batched IndexedDB store     *)
(* IdbKV), the module-level instance seenPosts, setSeenPost and the two    *)
(* hooks useIsPostSeen / useIsSliceSeen.                                   *)
(*                                                                         *)
(* IdbKV (src/maxine/idb) is not part of the sources at hand; its get,     *)
(* getBatch, set and its write batching are modelled from section 6 of the *)
(* specification (definitions named Idb...).                               *)
(***************************************************************************)
EXTENDS Integers, Sequences, FiniteSets, TLC

(***************************************************************************)
(* Bounds of the model.                                                    *)
(***************************************************************************)
MaxOps   == 3   \* calls of set, get, getBatch (runs of the hooks' effects) in one
                \* run, and promises unsettled at once
MaxBatch == 2   \* longest key list / slice

(***************************************************************************)
(* Values.                                                                 *)
(***************************************************************************)
\* JavaScript undefined: the value Map.get / the store yield for no record.
Undefined == [undefined |-> TRUE]

\* The value slot of a promise that has no value yet.
NoVal == [novalue |-> TRUE]

\* The outcome of a promise that is rejected instead of fulfilled.
Rejected == [rejected |-> TRUE]

\* Posts the rendering layer shows.
Posts ==
    { [uri |-> "at://x", cid |-> "c1"],
      [uri |-> "at://y", cid |-> "c2"] }

Feeds == {"Home", "Following"}

\* `${uri}:${cid}`
DeriveKey(uri, cid) == uri \o ":" \o cid

Keys == { DeriveKey(p.uri, p.cid) : p \in Posts }

\* new Date(ms): a Date object, getTime its milliseconds since the epoch.
DateOf(ms) == [getTime |-> ms]

\* The record setSeenPost stores.
SeenRecord(post, at, feed) ==
    [post |-> [uri |-> post.uri, cid |-> post.cid],
     lastSeenAt |-> at, lastSeenFeed |-> feed]

Range(s) == { s[i] : i \in 1..Len(s) }

SeqsUpTo(S, n) == UNION { [1..m -> S] : m \in 0..n }

(***************************************************************************)
(* Map<K, V | undefined>: a function whose domain is the set of keys the   *)
(* Map has.                                                                *)
(***************************************************************************)
MapHas(m, key) == key \in DOMAIN m

MapGet(m, key) == IF key \in DOMAIN m THEN m[key] ELSE Undefined

MapSet(m, key, value) ==
    [k \in (DOMAIN m) \cup {key} |-> IF k = key THEN value ELSE m[k]]

EmptyMap == [k \in {} |-> Undefined]

(***************************************************************************)
(* IdbKV, the durable batched store (modelled from the specification):     *)
(* set buffers a write, the buffered writes are committed together, get    *)
(* and getBatch read what has been committed.  A read is executed at some  *)
(* moment between its call and its resolution, in no fixed order with the  *)
(* commits that happen meanwhile.                                          *)
(***************************************************************************)
\* idb.set(key, value): the write joins the buffer of the current batch.
IdbSet(buf, key, value) == Append(buf, [key |-> key, value |-> value])

\* Committing the buffered writes in the order they were issued.
RECURSIVE IdbCommitted(_, _)
IdbCommitted(d, buf) ==
    IF buf = <<>> THEN d
    ELSE IdbCommitted([d EXCEPT ![Head(buf).key] = Head(buf).value], Tail(buf))

\* What idb.get(key) resolves to.
IdbGetResult(d, key) == d[key]

\* What idb.getBatch(keys) resolves to: one entry per requested key.
IdbGetBatchResult(d, keys) == [k \in Range(keys) |-> d[k]]

\* The durable read of a promise waiting for the store, executed on d.
IdbRead(r, d) ==
    IF r.st # "pending" THEN r
    ELSE [r EXCEPT !.val = IF r.op = "get"
                           THEN IdbGetResult(d, r.keys[1])
                           ELSE IdbGetBatchResult(d, r.keys)]

(***************************************************************************)
(* IdbWithInMemoryCache.                                                   *)
(***************************************************************************)
\* A promise returned by get / getBatch that has not run its callbacks yet.
\*   st = "resolved" : served from the Map, val is the value it resolves to
\*   st = "pending"  : waiting for the durable store, val is the result of
\*                     the durable read as executed so far
\*   st = "fulfilled": the durable store has answered and the callback of
\*                     the cache has run; the callback the caller chained
\*                     on the promise is a queued microtask
Request(op, keys, st, val, owner) ==
    [op |-> op, keys |-> keys, st |-> st, val |-> val, owner |-> owner]

\* A call of the durable store, as a stub store would record it.
IdbCall(op, arg) == [op |-> op, arg |-> arg]

\* set keeping the value a key already has in the Map.
CacheSet_KeepFirst(c, key, value) ==
    IF MapHas(c, key) THEN c ELSE MapSet(c, key, value)

\* set without line 22: the value goes to the durable store only.
CacheSet_StoreOnly(c, key, value) == c

\* set, line 22: this.cache.set(key, value)
CacheSet(c, key, value) == MapSet(c, key, value)

\* get, line 27: if (this.cache.has(key))
GetFromCache(c, key) == MapHas(c, key)

\* get, lines 27-33: the promise get returns.
GetRequest(c, key, owner) ==
    IF GetFromCache(c, key)
    THEN Request("get", <<key>>, "resolved", MapGet(c, key), owner)
    ELSE Request("get", <<key>>, "pending", NoVal, owner)

\* get, lines 27-30: the calls of the durable store get makes.
GetIdbCalls(c, key) ==
    IF GetFromCache(c, key) THEN <<>> ELSE <<IdbCall("get", <<key>>)>>

\* get caching records only, not the absence of a record.
GetThen_SkipAbsent(c, key, value) ==
    IF value = Undefined THEN c ELSE MapSet(c, key, value)

\* get, line 31: this.cache.set(key, value) once the durable read resolved.
GetThen(c, key, value) == MapSet(c, key, value)

\* The loop testing the cached value instead of Map.has.
ReadAllKeysFromCache_ByValue(c, keys) ==
    \A i \in 1..Len(keys) : MapHas(c, keys[i]) /\ c[keys[i]] # Undefined

\* getBatch, lines 37-47: the loop over the keys.
ReadAllKeysFromCache(c, keys) == \A i \in 1..Len(keys) : MapHas(c, keys[i])

\* getBatch, lines 39-42: the result composed from the Map.
BatchFromCache(c, keys) == [k \in Range(keys) |-> MapGet(c, k)]

\* getBatch, lines 49-53: the promise getBatch returns.
GetBatchRequest(c, keys, owner) ==
    IF ReadAllKeysFromCache(c, keys)
    THEN Request("getBatch", keys, "resolved", BatchFromCache(c, keys), owner)
    ELSE Request("getBatch", keys, "pending", NoVal, owner)

\* getBatch fetching only the keys the Map lacks.
GetBatchIdbCalls_MissingOnly(c, keys) ==
    IF ReadAllKeysFromCache(c, keys) THEN <<>>
    ELSE <<IdbCall("getBatch", SelectSeq(keys, LAMBDA k : ~MapHas(c, k)))>>

\* getBatch, lines 49-53: the calls of the durable store getBatch makes.
GetBatchIdbCalls(c, keys) ==
    IF ReadAllKeysFromCache(c, keys) THEN <<>>
    ELSE <<IdbCall("getBatch", keys)>>

\* getBatch replacing the Map by the batch.
GetBatchThen_Replace(c, batch) == batch

\* getBatch, lines 54-56: every pair of the batch is written into the Map.
GetBatchThen(c, batch) ==
    [k \in (DOMAIN c) \cup (DOMAIN batch) |->
        IF k \in DOMAIN batch THEN batch[k] ELSE c[k]]

(***************************************************************************)
(* The hooks.                                                              *)
(***************************************************************************)
\* The comparison of line 86 inverted.
IsSeenFromGet_Inverted(seenPost) == seenPost = Undefined

\* useIsPostSeen, line 86: seenPost !== undefined
IsSeenFromGet(seenPost) == seenPost # Undefined

\* useIsSliceSeen, line 109: [...seenPostMap.values()].every(p => !!p)
IsAllSeen(seenPostMap) ==
    \A k \in DOMAIN seenPostMap : seenPostMap[k] # Undefined

\* useIsSliceSeen, line 96: the keys of the items of a slice.
SliceKeys(items) ==
    [i \in 1..Len(items) |-> DeriveKey(items[i].uri, items[i].cid)]

\* The dependency list of an effect that has not run yet.
NoDeps == <<>>

(***************************************************************************)
(* State.                                                                  *)
(***************************************************************************)
VARIABLES
    cache,      \* seenPosts.cache: the Map
    durable,    \* IdbKV: the committed records, one per key or Undefined
    buffer,     \* IdbKV: the writes buffered for the next commit
    inflight,   \* promises of get / getBatch not settled yet, oldest first
    idbGets,    \* per key, how many times idb.get(key) has been called
    nSets,      \* calls of set so far
    nCalls,     \* calls of get / getBatch (effect runs of the hooks) so far
    postDeps,   \* useIsPostSeen: the dependencies of the last effect run
    postSeen,   \* useIsPostSeen: the isSeen state
    sliceDeps,  \* useIsSliceSeen: the dependencies of the last effect run
    sliceSeen,  \* useIsSliceSeen: the isSeen state
    lastEv,     \* the last call or settlement of the cache
    kPosts,     \* key-derivation runs: the two posts whose keys are derived
    kKeys,      \* key-derivation runs: the function deriving and its keys
    aIn,        \* generateAltTextViaProxy: the environment and the arguments
    aPc,        \* generateAltTextViaProxy: the await the call is suspended at
    aUrl,       \* generateAltTextViaProxy: the string getBase64Data works on
    aData,      \* generateAltTextViaProxy: { base64Data, mimeType } once read
    aErr,       \* generateAltTextViaProxy: the exception e caught at line 241
    aText,      \* generateAltTextViaProxy: altText of the main response
    aResp,      \* generateAltTextViaProxy: the last response, its body once read
    aLog,       \* what happened on the network so far, oldest first
    aOut        \* what the promise of generateAltTextViaProxy settled to

vars == <<cache, durable, buffer, inflight, idbGets, nSets, nCalls,
          postDeps, postSeen, sliceDeps, sliceSeen, lastEv, kPosts, kKeys,
          aIn, aPc, aUrl, aData, aErr, aText, aResp, aLog, aOut>>

hookVars == <<postDeps, postSeen, sliceDeps, sliceSeen>>

keyVars == <<kPosts, kKeys>>

altVars == <<aIn, aPc, aUrl, aData, aErr, aText, aResp, aLog, aOut>>

\* One observed step of the cache: a call (op "set", "get", "getBatch") or
\* a step of a promise (op "then": the callback of the cache has run, the
\* callback of the caller is queued; op "settle": fulfilled, its callbacks
\* have run; op "fail": its durable read failed; kind is the call that made
\* the promise).  val is the
\* value written, returned or delivered, or Rejected; calls are the calls
\* of the durable store the step made.
Event(op, kind, keys, val, served, calls) ==
    [op |-> op, kind |-> kind, keys |-> keys, val |-> val,
     served |-> served, calls |-> calls]

NoEvent == Event("none", "-", <<>>, NoVal, "-", <<>>)

\* new Date() (line 74) reads the wall clock: two calls may read the same
\* millisecond, a later one, or, the clock having been set back, an earlier
\* one.  LastInstant bounds the instants read in this run.
LastInstant == 2

Now == { DateOf(ms) : ms \in 1..LastInstant }

\* The posts a previous run of the application may have marked seen.
SeenBefore == { [uri |-> "at://x", cid |-> "c1"] }

\* The records a previous run of the application may have left for a key.
OldRecords(key) ==
    { SeenRecord(p, DateOf(0), "Home") :
        p \in { q \in SeenBefore : DeriveKey(q.uri, q.cid) = key } }

\* No key derived yet.
NoKeys == [by |-> "none", keys |-> <<>>]

\* The module has been loaded: seenPosts is constructed, no hook has rendered.
InitTracker ==
    /\ cache = EmptyMap
    /\ durable \in { d \in [Keys -> UNION { OldRecords(k) : k \in Keys } \cup {Undefined}] :
                       \A k \in Keys : d[k] \in OldRecords(k) \cup {Undefined} }
    /\ buffer = <<>>
    /\ inflight = <<>>
    /\ idbGets = [k \in Keys |-> 0]
    /\ nSets = 0
    /\ nCalls = 0
    /\ postDeps = NoDeps
    /\ postSeen = FALSE
    /\ sliceDeps = NoDeps
    /\ sliceSeen = FALSE
    /\ lastEv = NoEvent

\* generateAltTextViaProxy has not been called.
NoAltCall ==
    /\ aIn = NoVal
    /\ aPc = "idle"
    /\ aUrl = NoVal
    /\ aData = NoVal
    /\ aErr = NoVal
    /\ aText = NoVal
    /\ aResp = NoVal
    /\ aLog = <<>>
    /\ aOut = NoVal

Init ==
    /\ InitTracker
    /\ kPosts = <<>>
    /\ kKeys = NoKeys
    /\ NoAltCall

(***************************************************************************)
(* Helpers of the actions.                                                 *)
(***************************************************************************)
RemoveAt(s, i) == [j \in 1..(Len(s) - 1) |-> IF j < i THEN s[j] ELSE s[j + 1]]

\* s with s[i] moved to position n, n <= i.
MoveTo(s, i, n) ==
    [j \in 1..Len(s) |-> IF j < n \/ j > i THEN s[j]
                         ELSE IF j = n THEN s[i] ELSE s[j - 1]]

\* The promises served from the Map: their callbacks are queued microtasks,
\* run in the order queued and before any callback of the durable store.
MemServed == { i \in 1..Len(inflight) : inflight[i].st = "resolved" }

\* The promises of the durable store whose callback of the cache has run:
\* the callbacks of the hooks chained on them are queued microtasks, first
\* queued first in inflight.  No task (a call, an effect, a commit, a reload)
\* starts before the queue of microtasks is empty.
Queued == { i \in 1..Len(inflight) : inflight[i].st = "fulfilled" }

\* A callback of a hook is chained on the promise (lines 85, 108).
HasCallerCallback(r) == r.owner \in {"post", "slice"}

Record(ev) == lastEv' = ev

\* A promise joins the unsettled ones when something runs at its settlement:
\* the callbacks of the cache (it waits for the durable store) or a callback
\* of a hook.  A promise served from the Map to a caller that attached no
\* callback has its value fixed at the call and nothing left to run.
Enqueue(q, r) ==
    IF r.st = "resolved" /\ ~HasCallerCallback(r) THEN q
    ELSE Append(q, r)

(***************************************************************************)
(* IdbWithInMemoryCache: the calls.                                        *)
(***************************************************************************)
\* set(key, value), lines 21-24
Set(key, value) ==
    /\ nSets + nCalls < MaxOps
    /\ Queued = {}
    /\ nSets' = nSets + 1
    /\ cache' = CacheSet(cache, key, value)
    /\ buffer' = IdbSet(buffer, key, value)
    /\ Record(Event("set", "-", <<key>>, value, "-", <<IdbCall("set", <<key>>)>>))
    /\ UNCHANGED <<durable, inflight, idbGets, nCalls>>

\* get(key), lines 26-34, up to the return of the promise
Get(key, owner) ==
    /\ nSets + nCalls < MaxOps
    /\ Queued = {}
    /\ nCalls' = nCalls + 1
    /\ inflight' = Enqueue(inflight, IdbRead(GetRequest(cache, key, owner), durable))
    /\ idbGets' = [idbGets EXCEPT ![key] =
                      @ + Len(GetIdbCalls(cache, key))]
    /\ Record(Event("get", "-", <<key>>, GetRequest(cache, key, owner).val,
                    IF GetFromCache(cache, key) THEN "mem" ELSE "idb",
                    GetIdbCalls(cache, key)))
    /\ UNCHANGED <<cache, durable, buffer, nSets>>

\* getBatch(keys), lines 36-59, up to the return of the promise
GetBatch(keys, owner) ==
    /\ nSets + nCalls < MaxOps
    /\ Queued = {}
    /\ nCalls' = nCalls + 1
    /\ inflight' = Enqueue(inflight,
                            IdbRead(GetBatchRequest(cache, keys, owner), durable))
    /\ Record(Event("getBatch", "-", keys,
                    GetBatchRequest(cache, keys, owner).val,
                    IF ReadAllKeysFromCache(cache, keys) THEN "mem" ELSE "idb",
                    GetBatchIdbCalls(cache, keys)))
    /\ UNCHANGED <<cache, durable, buffer, idbGets, nSets>>

(***************************************************************************)
(* IdbKV: the steps of the durable store.                                  *)
(***************************************************************************)
\* The batch interval has elapsed: the buffered writes are committed.  The
\* reads not executed yet (any of those waiting) will see the new records.
IdbCommit ==
    /\ buffer # <<>>
    /\ Queued = {}
    /\ durable' = IdbCommitted(durable, buffer)
    /\ buffer' = <<>>
    /\ \E late \in SUBSET { i \in 1..Len(inflight) : inflight[i].st = "pending" } :
          inflight' = [i \in 1..Len(inflight) |->
                          IF i \in late THEN IdbRead(inflight[i], durable')
                          ELSE inflight[i]]
    /\ UNCHANGED <<cache, idbGets, nSets, nCalls, hookVars, lastEv, keyVars, altVars>>

(***************************************************************************)
(* The settlement of the promises.                                         *)
(***************************************************************************)
\* The Map after the callback of the cache (lines 30-33, 53-58) has run.
CacheAfterSettle(c, r) ==
    IF r.st # "pending" THEN c
    ELSE IF r.op = "get" THEN GetThen(c, r.keys[1], r.val)
    ELSE GetBatchThen(c, r.val)

\* useIsPostSeen, lines 85-87: the callback of the hook.
PostSeenAfterSettle(seen, r) ==
    IF r.owner = "post" THEN IsSeenFromGet(r.val) ELSE seen

\* useIsSliceSeen, lines 108-112: the callback of the hook.
SliceSeenAfterSettle(seen, r) ==
    IF r.owner = "slice" THEN IsAllSeen(r.val) ELSE seen

\* The durable store fulfils its promise and the callback of the cache
\* (lines 30-33, 53-58) runs: it writes the Map and fulfils the promise of
\* the cache.  The callback a hook chained on that promise is queued behind
\* the microtasks already queued; without one the promise is done.
StoreAnswers(i) ==
    /\ inflight[i].st = "pending"
    /\ MemServed = {}
    /\ cache' = CacheAfterSettle(cache, inflight[i])
    /\ IF HasCallerCallback(inflight[i])
       THEN /\ inflight' = MoveTo([inflight EXCEPT ![i].st = "fulfilled"],
                                  i, Cardinality(Queued) + 1)
            /\ Record(Event("then", inflight[i].op, inflight[i].keys,
                            inflight[i].val, "idb", <<>>))
       ELSE /\ inflight' = RemoveAt(inflight, i)
            /\ Record(Event("settle", inflight[i].op, inflight[i].keys,
                            inflight[i].val, "idb", <<>>))
    /\ UNCHANGED <<durable, buffer, idbGets, nSets, nCalls, hookVars,
                   keyVars, altVars>>

\* The callback a hook chained on a fulfilled promise (lines 85-87, 108-112)
\* runs, the first queued first.
CallerCallback(i) ==
    /\ inflight[i].st \in {"resolved", "fulfilled"}
    /\ \A j \in MemServed \cup Queued : i <= j
    /\ postSeen' = PostSeenAfterSettle(postSeen, inflight[i])
    /\ sliceSeen' = SliceSeenAfterSettle(sliceSeen, inflight[i])
    /\ inflight' = RemoveAt(inflight, i)
    /\ Record(Event("settle", inflight[i].op, inflight[i].keys, inflight[i].val,
                    IF inflight[i].st = "fulfilled" THEN "idb" ELSE "mem", <<>>))
    /\ UNCHANGED <<cache, durable, buffer, idbGets, nSets, nCalls,
                   postDeps, sliceDeps, keyVars, altVars>>

\* A promise of the cache takes its next step towards settlement.
Settle(i) == StoreAnswers(i) \/ CallerCallback(i)

\* get, line 30, and getBatch, line 53: then() is given a fulfilment
\* callback only, so a rejection of the store's promise rejects the promise
\* of the cache.
OutcomeOfFailedRead(r) == Rejected

\* The durable read of a promise fails: the promise of the cache is
\* rejected, no callback of the cache runs and, lines 85 and 108 attaching
\* fulfilment callbacks only, no callback of the hooks.
Reject(i) ==
    /\ inflight[i].st = "pending"
    /\ MemServed = {}
    /\ inflight' = RemoveAt(inflight, i)
    /\ Record(Event("fail", inflight[i].op, inflight[i].keys,
                    OutcomeOfFailedRead(inflight[i]), "idb", <<>>))
    /\ UNCHANGED <<cache, durable, buffer, idbGets, nSets, nCalls, hookVars,
                   keyVars, altVars>>

(***************************************************************************)
(* The cache driven directly through its three methods.                    *)
(***************************************************************************)
\* The values a caller stores under a key.
ValuesOf(key) ==
    { SeenRecord(p, at, "Home") :
        p \in { q \in Posts : DeriveKey(q.uri, q.cid) = key }, at \in Now }

CallSet ==
    \E key \in Keys : \E value \in ValuesOf(key) :
        /\ Set(key, value)
        /\ UNCHANGED <<hookVars, keyVars, altVars>>

CallGet ==
    \E key \in Keys :
        /\ Get(key, "direct")
        /\ UNCHANGED <<hookVars, keyVars, altVars>>

CallGetBatch ==
    \E keys \in SeqsUpTo(Keys, MaxBatch) :
        /\ GetBatch(keys, "direct")
        /\ UNCHANGED <<hookVars, keyVars, altVars>>

StoreFails == \E i \in 1..Len(inflight) : Reject(i)

Settles == \E i \in 1..Len(inflight) : Settle(i)

NextCache ==
    \/ CallSet
    \/ CallGet
    \/ CallGetBatch
    \/ IdbCommit
    \/ StoreFails
    \/ Settles

SpecCache == Init /\ [][NextCache]_vars

(***************************************************************************)
(* The tracker: setSeenPost and the effects of the two hooks.              *)
(***************************************************************************)
\* setSeenPost, line 71: const key = `${post.uri}:${post.cid}`
KeyOfSetSeenPost(post) == DeriveKey(post.uri, post.cid)

\* useIsPostSeen, line 83: const key = `${uri}:${cid}`
KeyOfPostEffect(uri, cid) == DeriveKey(uri, cid)

\* setSeenPost(post, feed), lines 70-77
SetSeenPost(post, feed) ==
    \E at \in Now :
        /\ Set(KeyOfSetSeenPost(post), SeenRecord(post, at, feed))
        /\ UNCHANGED <<hookVars, keyVars, altVars>>

\* useIsPostSeen, line 88: the dependency list [uri, cid, hideSeenPostsToggle]
PostDepsOf(post, toggle) == <<post.uri, post.cid, toggle>>

\* useIsPostSeen, lines 82-88: the effect, run at the first render and
\* whenever a dependency has changed.
PostEffect(post, toggle) ==
    /\ postDeps # PostDepsOf(post, toggle)
    /\ postDeps' = PostDepsOf(post, toggle)
    /\ Get(KeyOfPostEffect(post.uri, post.cid), "post")
    /\ UNCHANGED <<postSeen, sliceDeps, sliceSeen, keyVars, altVars>>

\* useIsSliceSeen, line 115: the dependency list [...keys, hideSeenPostsToggle]
SliceDepsOf(items, toggle) == Append(SliceKeys(items), toggle)

\* useIsSliceSeen, lines 103-106: the keys whose get, made for the log line,
\* goes to the durable store.
LogColdKeys(c, keys) == SelectSeq(keys, LAMBDA k : ~GetFromCache(c, k))

\* useIsSliceSeen, lines 103-106: the promises of those gets; nothing of
\* the hook waits for them, the callback of the cache does.
LogRequests(c, keys, d) ==
    [i \in 1..Len(LogColdKeys(c, keys)) |->
        IdbRead(GetRequest(c, LogColdKeys(c, keys)[i], "log"), d)]

LogIdbCalls(c, keys) ==
    [i \in 1..Len(LogColdKeys(c, keys)) |->
        IdbCall("get", <<LogColdKeys(c, keys)[i]>>)]

\* The effect querying an empty slice too.
SliceIsQueried_Always(keys) == TRUE

\* useIsSliceSeen, lines 99-101: if (keys.length === 0) return
SliceIsQueried(keys) == Len(keys) # 0

\* useIsSliceSeen, lines 98-115: the effect.
SliceEffect(items, toggle) ==
    LET keys == SliceKeys(items) IN
    /\ sliceDeps # SliceDepsOf(items, toggle)
    /\ sliceDeps' = SliceDepsOf(items, toggle)
    /\ nSets + nCalls < MaxOps
    /\ Queued = {}
    /\ nCalls' = nCalls + 1
    /\ IF ~SliceIsQueried(keys)
       THEN UNCHANGED <<cache, durable, buffer, inflight, idbGets, nSets,
                        lastEv>>
       ELSE /\ Len(inflight) + Len(LogColdKeys(cache, keys)) < MaxOps
            /\ inflight' = Enqueue(inflight \o LogRequests(cache, keys, durable),
                                   IdbRead(GetBatchRequest(cache, keys, "slice"),
                                           durable))
            /\ idbGets' = [k \in Keys |-> idbGets[k] +
                  Cardinality({ i \in 1..Len(keys) :
                                  keys[i] = k /\ ~GetFromCache(cache, k) })]
            /\ Record(Event("getBatch", "-", keys,
                            GetBatchRequest(cache, keys, "slice").val,
                            IF ReadAllKeysFromCache(cache, keys)
                            THEN "mem" ELSE "idb",
                            LogIdbCalls(cache, keys)
                                \o GetBatchIdbCalls(cache, keys)))
            /\ UNCHANGED <<cache, durable, buffer, nSets>>
    /\ UNCHANGED <<postDeps, postSeen, sliceSeen, keyVars, altVars>>

MarkSeen == \E post \in Posts : \E feed \in Feeds : SetSeenPost(post, feed)

PostRenders == \E post \in Posts : \E toggle \in BOOLEAN : PostEffect(post, toggle)

\* The slices the feed hands to the hook: the posts of one thread, each once.
Slices ==
    { items \in SeqsUpTo(Posts, MaxBatch) :
        \A i, j \in 1..Len(items) : items[i] = items[j] => i = j }

SliceRenders ==
    \E items \in Slices : \E toggle \in BOOLEAN : SliceEffect(items, toggle)

Next ==
    \/ MarkSeen
    \/ PostRenders
    \/ SliceRenders
    \/ IdbCommit
    \/ StoreFails
    \/ Settles

Spec == Init /\ [][Next]_vars

\* The tracker with the single-post hook only.
NextPost ==
    \/ MarkSeen
    \/ PostRenders
    \/ IdbCommit
    \/ StoreFails
    \/ Settles

SpecPost == Init /\ [][NextPost]_vars

\* The tracker with the slice hook only.
NextSlice ==
    \/ MarkSeen
    \/ SliceRenders
    \/ IdbCommit
    \/ StoreFails
    \/ Settles

SpecSlice == Init /\ [][NextSlice]_vars

\* The single-post hook alone, rendering over the records of an earlier run
\* kept by a durable store whose reads succeed.
NextPostOnly ==
    \/ PostRenders
    \/ Settles

SpecPostOnly == Init /\ [][NextPostOnly]_vars

\* The slice hook alone, rendering over the records of an earlier run.
NextSliceOnly ==
    \/ SliceRenders
    \/ StoreFails
    \/ Settles

SpecSliceOnly == Init /\ [][NextSliceOnly]_vars

(***************************************************************************)
(* Restart of the application.                                             *)
(***************************************************************************)
\* The module is loaded anew (lines 62-68): the constructor (lines 16-19)
\* makes an empty Map and a new IdbKV over the same store name.  The durable
\* records stay; the writes still buffered, the promises and the state of the
\* hooks of the previous run are gone, whatever they held.  A reload is a
\* task: it starts when no callback is queued.
Restart ==
    /\ Queued = {}
    /\ cache' = EmptyMap
    /\ buffer' = <<>>
    /\ inflight' = <<>>
    /\ idbGets' = [k \in Keys |-> 0]
    /\ postDeps' = NoDeps
    /\ postSeen' = FALSE
    /\ sliceDeps' = NoDeps
    /\ sliceSeen' = FALSE
    /\ Record(Event("restart", "-", <<>>, NoVal, "-", <<>>))
    /\ UNCHANGED <<durable, nSets, nCalls, keyVars, altVars>>

\* The tracker with the single-post hook, over restarts of the application.
NextDurable ==
    \/ MarkSeen
    \/ PostRenders
    \/ IdbCommit
    \/ StoreFails
    \/ Settles
    \/ Restart

\* A queued callback of a hook runs.
Microtask == \E i \in 1..Len(inflight) : CallerCallback(i)

\* The timer of the write batch fires batchInterval after the first buffered
\* write: a commit that stays due is made.  The queue of microtasks is run
\* until it is empty before the next task starts.
SpecDurable ==
    Init /\ [][NextDurable]_vars /\ WF_vars(IdbCommit) /\ WF_vars(Microtask)

(***************************************************************************)
(* Vocabulary of the properties.                                           *)
(***************************************************************************)
\* A write of key is buffered, not committed yet.
Buffered(key) == \E i \in 1..Len(buffer) : buffer[i].key = key

\* set(key, .) has been called in this run (the records of earlier runs
\* carry an instant before those of this run).
HasBeenSet(key) ==
    \/ Buffered(key)
    \/ durable[key] # Undefined /\ durable[key].lastSeenAt \in Now

\* The records setSeenPost stores under key in this run.
SetRecords(key) ==
    { SeenRecord(p, at, feed) :
        p \in { q \in Posts : DeriveKey(q.uri, q.cid) = key },
        at \in Now, feed \in Feeds }

\* The value of the most recent set(key, .).
LastSet(key) ==
    IF Buffered(key)
    THEN LET last == CHOOSE i \in 1..Len(buffer) :
                        /\ buffer[i].key = key
                        /\ \A j \in 1..Len(buffer) : buffer[j].key = key => j <= i
         IN buffer[last].value
    ELSE durable[key]

\* The step is a call of get(key).
GetCalled(key) ==
    /\ nCalls' = nCalls + 1
    /\ lastEv'.op = "get"
    /\ lastEv'.keys = <<key>>

\* The step is a call of getBatch.
GetBatchCalled ==
    /\ nCalls' = nCalls + 1
    /\ lastEv'.op = "getBatch"

\* The step fulfils a promise of the cache: its last callback has run.
Fulfilled ==
    /\ Len(inflight') < Len(inflight)
    /\ lastEv'.op = "settle"

\* The step is the answer of the durable store to a promise a hook waits
\* for: the callback of the cache runs, that of the hook is queued.
Answered ==
    /\ Cardinality(Queued') > Cardinality(Queued)
    /\ lastEv'.op = "then"

\* The step gives a promise of the cache its value: the durable store
\* answers, or the callback chained on a promise served from the Map runs.
Resolved == Answered \/ (Fulfilled /\ Queued = {})

(***************************************************************************)
(* Properties of the cache (SpecCache).                                    *)
(***************************************************************************)
\* C1 - Write visibility: a get(k) that follows set(k, v) with no call or
\* settlement of the cache in between returns v and makes no call of the
\* durable store, committed or not.
C1_WriteVisibility ==
    [][ \A k \in Keys :
          (lastEv.op = "set" /\ lastEv.keys = <<k>> /\ GetCalled(k))
          => /\ lastEv'.val = lastEv.val
             /\ lastEv'.calls = <<>>
             /\ idbGets' = idbGets
             /\ inflight' = inflight ]_vars

\* One set, then one get of the same key, served the buffered value the
\* durable store does not hold yet.
C1_Witness ==
    /\ nSets = 1 /\ nCalls = 1
    /\ lastEv.op = "get" /\ lastEv.served = "mem"
    /\ Len(buffer) = 1
    /\ buffer[1].key = lastEv.keys[1]
    /\ buffer[1].value = lastEv.val
    /\ durable[lastEv.keys[1]] # lastEv.val
    /\ \A k \in Keys : idbGets[k] = 0

\* C2 - Memory wins: once a get(k) has resolved, the Map holds for k the
\* value of the most recent set(k, .), whatever the interleaving of the set
\* with the get.
C2_MemoryWins ==
    (lastEv.op = "settle" /\ lastEv.kind = "get" /\ HasBeenSet(lastEv.keys[1]))
    => /\ MapHas(cache, lastEv.keys[1])
       /\ cache[lastEv.keys[1]] = LastSet(lastEv.keys[1])

\* C3 - A buffered set survives a batch round trip: when getBatch(keys) goes
\* to the durable store while the write of set(k1, v), k1 in keys, is still
\* buffered, then at its resolution the Map still holds v for k1 and the
\* mapping delivered maps k1 to v.
C3_BufferedSetSurvivesBatch ==
    [][ \A k \in Keys :
          ( /\ lastEv.op = "getBatch" /\ lastEv.served = "idb"
            /\ k \in Range(lastEv.keys)
            /\ MapHas(cache, k) /\ Buffered(k) /\ cache[k] = LastSet(k)
            /\ Fulfilled
            /\ lastEv'.kind = "getBatch" /\ lastEv'.keys = lastEv.keys )
          => /\ cache'[k] = cache[k]
             /\ lastEv'.val[k] = cache[k] ]_vars

\* C4 - Cold-read population: a get(k) with k not in the Map calls
\* idb.get(k) once; at its resolution the Map holds for k what the store
\* returned; a get(k) that follows the resolution makes no call of the store
\* and returns the same.
C4_ColdReadPopulation ==
    [][ /\ \A k \in Keys :
             (GetCalled(k) /\ ~MapHas(cache, k))
             => /\ lastEv'.calls = <<IdbCall("get", <<k>>)>>
                /\ idbGets'[k] = idbGets[k] + 1
                /\ \A j \in Keys \ {k} : idbGets'[j] = idbGets[j]
        /\ (Fulfilled /\ lastEv'.kind = "get" /\ lastEv'.served = "idb")
             => /\ MapHas(cache', lastEv'.keys[1])
                /\ cache'[lastEv'.keys[1]] = lastEv'.val
        /\ \A k \in Keys :
             (lastEv.op = "settle" /\ lastEv.kind = "get"
                 /\ lastEv.keys = <<k>> /\ GetCalled(k))
             => /\ lastEv'.val = lastEv.val
                /\ lastEv'.calls = <<>>
                /\ idbGets' = idbGets ]_vars

\* Two gets of a key and nothing else: the first went to the store and found
\* the record of an earlier run, the second was served from the Map.
C4_Witness ==
    /\ nSets = 0 /\ nCalls = 2
    /\ inflight = <<>>
    /\ lastEv.op = "get" /\ lastEv.served = "mem"
    /\ idbGets[lastEv.keys[1]] = 1
    /\ lastEv.val # Undefined
    /\ lastEv.val = durable[lastEv.keys[1]]

\* C5 - At most one durable single-key read per key: over a whole run
\* idb.get(k) is called at most once for every key k.
C5_OneDurableGetPerKey == \A k \in Keys : idbGets[k] <= 1

\* C6 - Batch all-or-nothing: a getBatch(keys) with a key missing from the
\* Map makes one call of the store, getBatch of the full key list, and no
\* idb.get; at its resolution every pair of the batch is in the Map.
C6_BatchAllOrNothing ==
    [][ /\ (GetBatchCalled /\ \E k \in Range(lastEv'.keys) : ~MapHas(cache, k))
             => /\ lastEv'.calls = <<IdbCall("getBatch", lastEv'.keys)>>
                /\ idbGets' = idbGets
                /\ cache' = cache
                /\ Len(inflight') = Len(inflight) + 1
                /\ inflight'[Len(inflight')].op = "getBatch"
                /\ inflight'[Len(inflight')].keys = lastEv'.keys
                /\ inflight'[Len(inflight')].st = "pending"
        /\ (Fulfilled /\ lastEv'.kind = "getBatch" /\ lastEv'.served = "idb")
             => \A k \in DOMAIN lastEv'.val :
                   MapHas(cache', k) /\ cache'[k] = lastEv'.val[k] ]_vars

\* getBatch([k1, k2]) has just been called with k1 in the Map and k2 not,
\* and has asked the store for both.
C6_Witness ==
    /\ lastEv.op = "getBatch" /\ lastEv.served = "idb"
    /\ Len(lastEv.keys) = 2
    /\ MapHas(cache, lastEv.keys[1])
    /\ ~MapHas(cache, lastEv.keys[2])
    /\ lastEv.calls = <<IdbCall("getBatch", lastEv.keys)>>
    /\ inflight # <<>>
    /\ inflight[Len(inflight)].keys = lastEv.keys

\* C7 - Warm batch does no I/O: a getBatch(keys) with every key in the Map,
\* keys cached as absent included, makes no call of the store, leaves the
\* Map as it is and returns the requested keys with their values in the Map;
\* getBatch([]) returns the empty mapping.
C7_WarmBatchNoIO ==
    [][ (GetBatchCalled /\ \A k \in Range(lastEv'.keys) : MapHas(cache, k))
        => /\ lastEv'.calls = <<>>
           /\ idbGets' = idbGets
           /\ cache' = cache
           /\ inflight' = inflight
           /\ DOMAIN lastEv'.val = Range(lastEv'.keys)
           /\ \A k \in Range(lastEv'.keys) : lastEv'.val[k] = cache[k]
           /\ lastEv'.keys = <<>> => lastEv'.val = EmptyMap ]_vars

\* A getBatch of two keys served from the Map, one of them cached as absent.
C7_Witness ==
    /\ lastEv.op = "getBatch" /\ lastEv.served = "mem"
    /\ Len(lastEv.keys) = 2 /\ lastEv.keys[1] # lastEv.keys[2]
    /\ \E k \in Range(lastEv.keys) : lastEv.val[k] = Undefined
    /\ lastEv.calls = <<>>

\* C8 - No eviction: a key that is in the Map stays in the Map.
C8_NoEviction == [][ \A k \in Keys : MapHas(cache, k) => MapHas(cache', k) ]_vars

\* Both keys are in the Map, one written by set, after a batch has resolved.
C8_Witness ==
    /\ DOMAIN cache = Keys
    /\ nSets >= 1
    /\ lastEv.op = "settle" /\ lastEv.kind = "getBatch"

(***************************************************************************)
(* Key derivation on its own: two posts are drawn, and each of the three   *)
(* functions that derive keys derives the keys of both.                    *)
(***************************************************************************)
\* The uri and cid strings of the runs.
KeyStrings == {"a", "b", "c", "a:b", "b:c", "at://x", "c1"}

KeyPosts == { [uri |-> u, cid |-> c] : u \in KeyStrings, c \in KeyStrings }

InitKey ==
    /\ InitTracker
    /\ \A k \in Keys : durable[k] = Undefined
    /\ kPosts \in { <<p, q>> : p \in KeyPosts, q \in KeyPosts }
    /\ kKeys = NoKeys
    /\ NoAltCall

KeysInSetSeenPost ==
    /\ kKeys.by # "setSeenPost"
    /\ kKeys' = [by |-> "setSeenPost",
                 keys |-> <<KeyOfSetSeenPost(kPosts[1]), KeyOfSetSeenPost(kPosts[2])>>]
    /\ UNCHANGED <<cache, durable, buffer, inflight, idbGets, nSets, nCalls,
                   hookVars, lastEv, kPosts, altVars>>

KeysInPostEffect ==
    /\ kKeys.by # "useIsPostSeen"
    /\ kKeys' = [by |-> "useIsPostSeen",
                 keys |-> <<KeyOfPostEffect(kPosts[1].uri, kPosts[1].cid),
                            KeyOfPostEffect(kPosts[2].uri, kPosts[2].cid)>>]
    /\ UNCHANGED <<cache, durable, buffer, inflight, idbGets, nSets, nCalls,
                   hookVars, lastEv, kPosts, altVars>>

KeysInSliceEffect ==
    /\ kKeys.by # "useIsSliceSeen"
    /\ kKeys' = [by |-> "useIsSliceSeen", keys |-> SliceKeys(kPosts)]
    /\ UNCHANGED <<cache, durable, buffer, inflight, idbGets, nSets, nCalls,
                   hookVars, lastEv, kPosts, altVars>>

NextKey ==
    \/ KeysInSetSeenPost
    \/ KeysInPostEffect
    \/ KeysInSliceEffect

SpecKey == InitKey /\ [][NextKey]_vars

(***************************************************************************)
(* Properties of the tracker.                                              *)
(***************************************************************************)
\* C9 - Durable store failures are absorbed: when the durable read of a
\* get / getBatch fails, the promise of the cache is fulfilled with absent
\* (for getBatch: with every key absent), and isPostSeen, whose query it
\* was, reports not seen.
C9_StoreFailureAbsorbed ==
    lastEv.op = "fail"
    => /\ lastEv.val # Rejected
       /\ lastEv.kind = "get" => lastEv.val = Undefined
       /\ lastEv.kind = "getBatch" =>
             \A k \in Range(lastEv.keys) : lastEv.val[k] = Undefined
       /\ (postDeps # NoDeps
             /\ lastEv.keys = <<KeyOfPostEffect(postDeps[1], postDeps[2])>>)
          => ~postSeen

\* C10 - Key derivation: the key of (uri, cid) is uri ++ ":" ++ cid in
\* setSeenPost, useIsPostSeen and useIsSliceSeen alike, and two distinct
\* (uri, cid) pairs never have the same key.
C10_KeyInjective ==
    kKeys.by # "none"
    => /\ \A i \in 1..2 :
             kKeys.keys[i] = kPosts[i].uri \o ":" \o kPosts[i].cid
       /\ kPosts[1] # kPosts[2] => kKeys.keys[1] # kKeys.keys[2]

\* C11 - setSeenPost is last-write-wins: after a call of setSeenPost (the
\* second of two for the same post in particular) the Map holds one value for
\* the key, the record of that call, stamped with the time of that call; once
\* the buffered writes have been committed the durable store holds the same
\* record for the key.
C11_LastWriteWins ==
    lastEv.op = "set"
    => /\ MapHas(cache, lastEv.keys[1])
       /\ cache[lastEv.keys[1]] = lastEv.val
       /\ lastEv.val.lastSeenAt \in Now
       /\ buffer = <<>> => durable[lastEv.keys[1]] = lastEv.val

\* setSeenPost has been called twice, both times for the same post, the
\* second time from the feed "Following" and with the clock reading the
\* first instant of the run (no later than at the first call); the writes
\* are committed.
C11_Witness ==
    /\ nSets = 2
    /\ lastEv.op = "set"
    /\ buffer = <<>>
    /\ lastEv.val.lastSeenFeed = "Following"
    /\ lastEv.val.lastSeenAt = DateOf(1)
    /\ durable[lastEv.keys[1]] = lastEv.val
    /\ cache[lastEv.keys[1]] = lastEv.val
    /\ \A k \in Keys \ {lastEv.keys[1]} :
          durable[k] = Undefined \/ durable[k].lastSeenAt = DateOf(0)

\* What useIsPostSeen would report for the key, were it queried now and its
\* get resolved now: the value in the Map if the Map has the key, else the
\* record the durable store holds.
PostWouldReport(c, d, key) ==
    IF GetFromCache(c, key) THEN IsSeenFromGet(MapGet(c, key))
    ELSE IsSeenFromGet(IdbGetResult(d, key))

\* C12 - Slice semantics: when the getBatch of a non-empty slice resolves,
\* isSliceSeen reports true if and only if every item of the slice has a
\* present record, that is if and only if isPostSeen, queried at that point,
\* would report true for each item: the value the getBatch resolves to says
\* so, and the callback of the hook reports what that value says.
C12_SliceSemantics ==
    [][ /\ (Resolved /\ lastEv'.kind = "getBatch" /\ lastEv'.keys # <<>>)
           => IsAllSeen(lastEv'.val)
                 = (\A k \in Range(lastEv'.keys) :
                       PostWouldReport(cache, durable, k))
        /\ (Fulfilled /\ lastEv'.kind = "getBatch" /\ lastEv'.keys # <<>>)
           => sliceSeen' = IsAllSeen(lastEv'.val) ]_vars

\* C13 - Empty slice is a no-op: an effect run of useIsSliceSeen with an
\* empty item list calls neither get nor getBatch nor the durable store, and
\* leaves the reported state as it was.
C13_EmptySliceNoOp ==
    [][ (sliceDeps' # sliceDeps /\ Len(sliceDeps') = 1)
        => /\ sliceSeen' = sliceSeen
           /\ inflight' = inflight
           /\ idbGets' = idbGets
           /\ lastEv' = lastEv
           /\ cache' = cache
           /\ buffer' = buffer ]_vars

\* The slice was reported seen, then the hook was rendered with an empty
\* slice: it is still reported seen and nothing is in flight.
C13_Witness ==
    /\ Len(sliceDeps) = 1
    /\ sliceSeen
    /\ inflight = <<>>
    /\ nCalls >= 2

(***************************************************************************)
(* Properties over restarts (SpecDurable).                                 *)
(***************************************************************************)
\* A fresh instance (empty Map, nothing buffered) whose only call so far is
\* a get(key), not resolved yet.
FreshGetPending(key) ==
    /\ cache = EmptyMap
    /\ buffer = <<>>
    /\ Len(inflight) = 1
    /\ lastEv.op = "get"
    /\ lastEv.keys = <<key>>

\* The get of a fresh instance has been answered with the stored record;
\* the callback of the hook is queued.
FreshGetAnswered(key) ==
    /\ cache = [k \in {key} |-> durable[key]]
    /\ buffer = <<>>
    /\ Len(inflight) = 1
    /\ Queued = {1}
    /\ lastEv.op = "then"
    /\ lastEv.keys = <<key>>
    /\ lastEv.val = durable[key]

\* A fresh instance queried for a key whose record is committed: the get
\* resolves to the stored record, the Map holds it, and isPostSeen, whose get
\* it was, reports seen once its callback has run.
C14_FreshInstanceReads ==
    [][ \A k \in Keys :
          /\ (FreshGetPending(k) /\ durable[k] # Undefined /\ Resolved)
             => /\ lastEv'.val = durable[k]
                /\ MapHas(cache', k) /\ cache'[k] = durable[k]
                /\ FreshGetAnswered(k)'
          /\ (FreshGetAnswered(k) /\ durable[k] # Undefined /\ Fulfilled)
             => /\ lastEv'.val = durable[k]
                /\ postSeen' ]_vars

\* Every set is eventually durable, it or a later set of the same key, unless
\* the application restarts before the commit: the writes buffered for a key
\* eventually leave the buffer, and when they do without a restart the
\* durable store holds the value of the most recent set of the key.
C14_SetEventuallyDurable ==
    /\ [][ \A k \in Keys :
             (Buffered(k) /\ ~Buffered(k)')
             => \/ durable'[k] = LastSet(k) /\ durable'[k] \in SetRecords(k)
                \/ lastEv'.op = "restart" ]_vars
    /\ \A k \in Keys : Buffered(k) ~> ~Buffered(k)

\* C14 - Durability across restart: after setSeenPost(post, feed) and the
\* commit of its write, a fresh cache instance over the same store resolves
\* get(key(post)) to the stored record and isPostSeen(post) reports true;
\* the commit being made when it stays due, every set is eventually durable.
C14_DurableAcrossRestart == C14_FreshInstanceReads /\ C14_SetEventuallyDurable

\* A post was marked seen, the write was committed, the application was
\* restarted, and the hook of the fresh instance has been told the record
\* the durable store holds.
C14_Witness ==
    /\ nSets = 1
    /\ lastEv.op = "settle" /\ lastEv.kind = "get" /\ lastEv.served = "idb"
    /\ lastEv.val # Undefined
    /\ lastEv.val.lastSeenAt \in Now
    /\ durable[lastEv.keys[1]] = lastEv.val
    /\ cache = [k \in {lastEv.keys[1]} |-> lastEv.val]
    /\ buffer = <<>>
    /\ postDeps # NoDeps
    /\ KeyOfPostEffect(postDeps[1], postDeps[2]) = lastEv.keys[1]
    /\ postSeen

(***************************************************************************)
(* Properties of the hooks.                                                *)
(***************************************************************************)
\* The promise was made by an effect run of a hook whose dependencies have
\* changed since to another post or another item list.
Stale(r) ==
    \/ /\ r.owner = "post"
       /\ postDeps # NoDeps
       /\ r.keys # <<KeyOfPostEffect(postDeps[1], postDeps[2])>>
    \/ /\ r.owner = "slice"
       /\ sliceDeps # NoDeps
       /\ r.keys # SubSeq(sliceDeps, 1, Len(sliceDeps) - 1)

\* The step fulfils the promise at position i.
FulfilledAt(i) ==
    /\ Fulfilled
    /\ inflight' = RemoveAt(inflight, i)
    /\ lastEv'.kind = inflight[i].op
    /\ lastEv'.keys = inflight[i].keys
    /\ lastEv'.val = inflight[i].val

\* The step is the answer of the durable store to the promise at position i.
AnsweredAt(i) ==
    /\ Answered
    /\ inflight[i].st = "pending"
    /\ inflight' = MoveTo([inflight EXCEPT ![i].st = "fulfilled"],
                          i, Cardinality(Queued) + 1)
    /\ lastEv'.kind = inflight[i].op
    /\ lastEv'.keys = inflight[i].keys
    /\ lastEv'.val = inflight[i].val

\* C15 - Stale resolutions are discarded by the caller but still warm the
\* cache: when a get / getBatch resolves after the dependencies of its hook
\* have changed, the seen states the hooks report stay as they are, and the
\* cache, if the promise waited for the durable store, still writes the
\* resolved value into the Map.
C15_StaleDiscarded ==
    [][ \A i \in 1..Len(inflight) :
          /\ (AnsweredAt(i) /\ Stale(inflight[i]))
             => /\ postSeen' = postSeen
                /\ sliceSeen' = sliceSeen
                /\ \A k \in Range(inflight[i].keys) : MapHas(cache', k)
          /\ (FulfilledAt(i) /\ Stale(inflight[i]))
             => /\ postSeen' = postSeen
                /\ sliceSeen' = sliceSeen ]_vars

\* A record is present for the key: in the Map or in the durable store.
RecordPresent(key) ==
    \/ MapHas(cache, key) /\ cache[key] # Undefined
    \/ durable[key] # Undefined

\* C16 - isPostSeen is eventually correct: it reports not seen before its
\* first query, and once no get is in flight any more it reports seen
\* exactly if a record is present for the key of the current post, whatever
\* the order in which the gets of the successive queries resolved.
C16_EventuallyCorrect ==
    /\ postDeps = NoDeps => ~postSeen
    /\ (postDeps # NoDeps /\ inflight = <<>>)
       => postSeen = RecordPresent(KeyOfPostEffect(postDeps[1], postDeps[2]))

(***************************************************************************)
(* src/maxine/alt-text.ts: generateAltTextViaProxy.  A string that is only *)
(* measured (the base64 payload, an alt text) is modelled by its length;   *)
(* a message built by a template literal is the sequence of its pieces.    *)
(***************************************************************************)
\* line 6
MAX_ALT_TEXT_LENGTH == 2000

\* line 9
ABSOLUTE_MAX_LENGTH == 5000

\* line 147: the payload size above which the longer timeout is used
LARGE_PAYLOAD_LENGTH == 4000000

\* line 228: the length of condensedNote
CONDENSED_NOTE_LENGTH == 85

\* line 333: the length of "... [content truncated for processing]"
TRUNCATION_MARK_LENGTH == 38

\* import.meta.env.VITE_CLOUD_FUNCTION_URL (line 3): unset, the placeholder
\* of the template, or the URL of the proxy.
UrlUnset == ""

UrlPlaceholder == "YOUR_FUNCTION_URL_HERE"

Urls == {UrlUnset, UrlPlaceholder, "https://proxy.example/generateAltText"}

\* An alt text of len characters.  from: who wrote it.
Text(len, from) == [len |-> len, from |-> from, note |-> FALSE]

\* A value that has no length property (a number, a boolean, null, {}).
NoLength == -1

\* A value that is not a string, by what the code asks of it.
\*   truthy: whether !value is false
\*   length: value.length, or NoLength
\*   str   : the length of the string value is converted to by +
NonString(from, truthy, length, str) ==
    [nonstring |-> TRUE, from |-> from, truthy |-> truthy, length |-> length,
     str |-> str]

\* typeof value === 'string'
IsString(value) == "len" \in DOMAIN value

\* !value is false
Truthy(value) == IF IsString(value) THEN value.len > 0 ELSE value.truthy

\* An exception.
Exception(name, message) == [name |-> name, message |-> message]

\* Bodies that are text, not JSON.
UnparseableTexts ==
    {"<html>", "Payload Too Large", "Failed to fetch", "NetworkError",
     "Error 413"}

\* The message of the SyntaxError JSON.parse throws for text.  It is the
\* parser's: one that quotes the text (quoted), or one that names the first
\* character and its position only.
SyntaxErrorMessage(text, quoted) ==
    LET first == CASE text = "<html>" -> "<"
                   [] text = "Payload Too Large" -> "P"
                   [] text = "Failed to fetch" -> "F"
                   [] text = "NetworkError" -> "N"
                   [] text = "Error 413" -> "E"
    IN  IF quoted
        THEN "Unexpected token '" \o first \o "', \"" \o text
                 \o "\" is not valid JSON"
        ELSE "Unexpected token " \o first \o " in JSON at position 0"

\* The substrings the code looks for (lines 246, 292-304) in the messages of
\* the exceptions of the runs.
Needles(message) ==
    CASE message \in {"Failed to fetch",
                      SyntaxErrorMessage("Failed to fetch", TRUE)} ->
            {"Failed to fetch"}
      [] message \in {"NetworkError when attempting to fetch resource.",
                      SyntaxErrorMessage("NetworkError", TRUE)} ->
            {"NetworkError"}
      [] message \in {"Payload Too Large",
                      SyntaxErrorMessage("Payload Too Large", TRUE)} ->
            {"too large", "payload too large"}
      [] message = SyntaxErrorMessage("Error 413", TRUE) -> {"413"}
      [] OTHER -> {}

\* message.includes(needle) / message.toLowerCase().includes(needle)
Includes(message, needle) == needle \in Needles(message)

\* { altText } and { error }: the two shapes of PortResponse (line 113).
AltTextResult(text) == [altText |-> text]

ErrorResult(pieces) == [error |-> pieces]

\* What happens on the network: a fetch of the proxy (kind "main", "retry",
\* "condense") or of the source is sent, its answer arrives, the body of the
\* answer is read (op "json", "text").
Fetch(kind, timeout, size) ==
    [op |-> "fetch", kind |-> kind, timeout |-> timeout, size |-> size]

ReadBody(kind, how) == [op |-> how, kind |-> kind]

\* The answer to a fetch has arrived, with its status.
Answer(kind, status) == [op |-> "answer", kind |-> kind, status |-> status]

\* getBase64Data, lines 28-38: a data URL "data:<mime>;base64,<data>".
\*   form "nomatch": the regular expression of line 28 does not match
\*   form "badmime": it matches, the mime type has no "/"
\*   form "ok"     : it matches with a mime type; size is the length of <data>
DataUrl(form, size) == [scheme |-> "data", form |-> form, size |-> size]

\* A source that is not a data URL.
OtherSource(scheme) == [scheme |-> scheme, form |-> "-", size |-> 0]

\* getBase64Data, lines 26-38: the exception thrown for a data URL, or NoVal.
DataUrlError(src) ==
    IF src.form = "nomatch"
    THEN Exception("Error", "Invalid Data URL format received")
    ELSE IF src.form = "badmime" \/ src.size = 0
    THEN Exception("Error", "Extracted mimeType or base64 data appears invalid.")
    ELSE NoVal

\* getBase64Data, line 38: { base64Data, mimeType } of a well-formed data URL.
Base64Data(src) == [size |-> src.size]

\* The comparison of line 147 made with >=.
TimeoutDuration_AtThreshold(size) ==
    IF size >= LARGE_PAYLOAD_LENGTH THEN 300000 ELSE 180000

\* line 147: base64Data.length > 4000000 ? 300000 : 180000
TimeoutDuration(size) ==
    IF size > LARGE_PAYLOAD_LENGTH THEN 300000 ELSE 180000

\* lines 322, 358, 365: originalText.substring(0, MAX_ALT_TEXT_LENGTH - 3) + '...'
Truncated(text) ==
    [text EXCEPT !.len = (IF text.len < MAX_ALT_TEXT_LENGTH - 3
                          THEN text.len ELSE MAX_ALT_TEXT_LENGTH - 3) + 3,
                 !.from = "truncated"]

\* lines 332-334: the length of safeOriginalText
SafeOriginalLength(len) ==
    IF len > ABSOLUTE_MAX_LENGTH
    THEN (ABSOLUTE_MAX_LENGTH - 100) + TRUNCATION_MARK_LENGTH
    ELSE len

\* lines 227-233: the note put before a condensed video description
\*   altText.length + condensedNote.length <= MAX_ALT_TEXT_LENGTH is false
\*   for a value without length (undefined + 85 is NaN); condensedNote +
\*   altText is a string whatever altText is.
WithCondensedNote(text, isVideo) ==
    LET length == IF IsString(text) THEN text.len ELSE text.length IN
    IF /\ isVideo
       /\ length # NoLength
       /\ length + CONDENSED_NOTE_LENGTH <= MAX_ALT_TEXT_LENGTH
    THEN IF IsString(text)
         THEN [text EXCEPT !.len = @ + CONDENSED_NOTE_LENGTH, !.note = TRUE]
         ELSE [len |-> CONDENSED_NOTE_LENGTH + text.str, from |-> text.from,
               note |-> TRUE]
    ELSE text

(***************************************************************************)
(* What the network answers.                                               *)
(***************************************************************************)
\* The body of a response that is JSON: altText is its altText field (a
\* Text, a NonString, or NoVal when there is none), error its error field
\* ("" when there is none).
Body(kind, altText, error) == [kind |-> kind, altText |-> altText, error |-> error]

\* A body json() rejects for, with thrown.
\*   kind "unreadable" : reading the body fails (text() rejects too)
\*   kind "unparseable": the body is text that is not JSON (text() resolves)
FailingBody(kind, thrown) ==
    [kind |-> kind, thrown |-> thrown, altText |-> NoVal, error |-> ""]

\* A response; body is NoVal until the body has been read.
Response(status, statusText, body) ==
    [status |-> status, statusText |-> statusText, body |-> body]

\* Response.ok
Ok(response) == response.status >= 200 /\ response.status <= 299

\* The exception of Response.json(), or NoVal when the body parses.
JsonError(body) ==
    IF body.kind \in {"unreadable", "unparseable"} THEN body.thrown ELSE NoVal

\* typeof responseData.altText === 'string' (lines 214, 275)
HasAltTextString(body) ==
    body.kind = "json" /\ body.altText # NoVal /\ IsString(body.altText)

(***************************************************************************)
(* generateAltTextViaProxy: the branches.                                  *)
(***************************************************************************)
\* line 121
ProxyUrlConfigured(url) == ~(url = UrlUnset \/ url = UrlPlaceholder)

\* line 123
ConfigurationError ==
    ErrorResult(<<"Extension configuration error: Proxy URL not set.">>)

\* The outer catch letting the exception through.
RequestError_Rethrow(pieces) == Rejected

\* lines 310-314: the outer catch
RequestError(pieces) == ErrorResult(<<"Request Error: ">> \o pieces)

\* The retry condition without the test of the name.
IsFailedToFetch_AnyName(e) == Includes(e.message, "Failed to fetch")

\* line 246: e.name === 'TypeError' && e.message.includes('Failed to fetch')
IsFailedToFetch(e) ==
    e.name = "TypeError" /\ Includes(e.message, "Failed to fetch")

\* lines 289-308: the error returned for an exception that is not retried.
MainErrorResult(e) ==
    IF e.name = "AbortError"
    THEN ErrorResult(<<"Request timed out after several minutes. The media may be too complex to process.">>)
    ELSE IF Includes(e.message, "Failed to fetch")
    THEN ErrorResult(<<"Network error: Unable to connect to the AI service. Please check your connection and try again later.">>)
    ELSE IF \/ Includes(e.message, "413")
            \/ Includes(e.message, "too large")
            \/ Includes(e.message, "request entity too large")
            \/ Includes(e.message, "payload too large")
            \/ Includes(e.message, "message length exceeded")
    THEN ErrorResult(<<"Server error: File exceeds size limits (max 20MB). Please use a smaller file.">>)
    ELSE IF Includes(e.message, "NetworkError")
    THEN ErrorResult(<<"Network error: Connection interrupted. Please try again.">>)
    ELSE ErrorResult(<<"Error: ",
                       IF e.message # "" THEN e.message
                       ELSE "Unknown error occurred">>)

CorsError ==
    ErrorResult(<<"Access denied by the server. This is likely a CORS (Cross-Origin Resource Sharing) issue. The server needs to allow this extension to connect to it.">>)

SizeLimitError ==
    ErrorResult(<<"Server error: File exceeds size limits (max 20MB). Please use a smaller file.">>)

ServerError ==
    ErrorResult(<<"The server experienced an error processing your request. This could be due to the file size or server load.">>)

\* The test of line 195 made on the whole 5xx class.
IsServerErrorStatus_All5xx(status) ==
    status = 0 \/ (status >= 500 /\ status <= 599)

\* line 195: status === 0 || status === 500 || status === 502
IsServerErrorStatus(status) == status = 0 \/ status = 500 \/ status = 502

\* lines 189-198: whether the body of a non-OK response is read.
StatusReadsBody(status) ==
    ~(status = 403 \/ status = 413 \/ IsServerErrorStatus(status))

\* lines 186-207: the error returned for a non-OK response.
StatusError(response) ==
    IF response.status = 403 THEN CorsError
    ELSE IF response.status = 413 THEN SizeLimitError
    ELSE IF IsServerErrorStatus(response.status) THEN ServerError
    ELSE IF JsonError(response.body) # NoVal
    THEN ErrorResult(<<"Request failed (", ToString(response.status), "): ",
                       response.statusText>>)
    ELSE IF response.body.error # ""
    THEN ErrorResult(<<response.body.error>>)
    ELSE IF response.statusText # ""
    THEN ErrorResult(<<response.statusText>>)
    ELSE ErrorResult(<<"Proxy request failed with status ",
                       ToString(response.status)>>)

InvalidFormatError ==
    ErrorResult(<<"Received invalid response format from proxy service.">>)

\* line 220: altText.length > MAX_ALT_TEXT_LENGTH
NeedsCondensing(text) == text.len > MAX_ALT_TEXT_LENGTH

\* condenseAltText, lines 353-365: what it returns for the answer of the
\* proxy (rejected: the fetch of line 345 failed).  Line 355 tests
\* !responseData.altText: an absent altText, "", 0, false and null all give
\* the truncation.
CondensedText(original, rejected, response) ==
    IF rejected THEN Truncated(original)
    ELSE IF JsonError(response.body) # NoVal THEN Truncated(original)
    ELSE IF ~Ok(response) THEN Truncated(original)
    ELSE IF response.body.altText = NoVal THEN Truncated(original)
    ELSE IF ~Truthy(response.body.altText) THEN Truncated(original)
    ELSE response.body.altText

\* lines 267-272: the error returned when the retry is answered non-OK.
RetryStatusError(e, response) ==
    ErrorResult(<<"Network error after multiple attempts. Main: ", e.message,
                  ". Alt: ",
                  IF response.body.kind = "unreadable"
                  THEN "Alternative request failed with status "
                           \o ToString(response.status)
                  ELSE "body of the response">>)

\* lines 278-281
RetryInvalidError ==
    ErrorResult(<<"Network error: AI service connection failed (alt response invalid).">>)

\* lines 282-285: the retry threw altError.
RetryExceptionError(e, altError) ==
    ErrorResult(<<"Network error: Unable to connect to the AI service after multiple attempts. Please check your connection. (Main: ",
                  e.message, ", Alt Exception: ", altError.message, ")">>)

(***************************************************************************)
(* generateAltTextViaProxy: the inputs of the runs.                        *)
(***************************************************************************)
PayloadSizes ==
    {0, 1, 1000001, LARGE_PAYLOAD_LENGTH - 1, LARGE_PAYLOAD_LENGTH,
     LARGE_PAYLOAD_LENGTH + 1, 10000001}

DataUrls ==
    { DataUrl(form, size) : form \in {"ok", "nomatch", "badmime"},
                            size \in PayloadSizes }

Sources ==
    DataUrls \cup { OtherSource(scheme) : scheme \in {"http", "https", "blob", "other"} }

TextLengths ==
    {0, 1, MAX_ALT_TEXT_LENGTH - CONDENSED_NOTE_LENGTH,
     MAX_ALT_TEXT_LENGTH - CONDENSED_NOTE_LENGTH + 1,
     MAX_ALT_TEXT_LENGTH, MAX_ALT_TEXT_LENGTH + 1, ABSOLUTE_MAX_LENGTH + 1}

Statuses == {0, 200, 201, 400, 403, 413, 500, 502, 503, 599}

StatusTexts == {"", "Status Text"}

\* altText fields that are not strings: 0, 5, ["a"], an array of one string
\* of 2001 characters, { length: 3 } and { length: 1916 }.
NonStrings(from) ==
    { NonString(from, FALSE, NoLength, 1),
      NonString(from, TRUE, NoLength, 1),
      NonString(from, TRUE, 1, 1),
      NonString(from, TRUE, 1, MAX_ALT_TEXT_LENGTH + 1),
      NonString(from, TRUE, 3, 15),
      NonString(from, TRUE, MAX_ALT_TEXT_LENGTH - CONDENSED_NOTE_LENGTH + 1, 15) }

\* The exceptions fetch and the reading of a body reject with.
FetchExceptions ==
    { Exception("TypeError", "Failed to fetch"),
      Exception("TypeError", "NetworkError when attempting to fetch resource."),
      Exception("TypeError", "Load failed"),
      Exception("Error", "Failed to fetch"),
      Exception("Error", "Payload Too Large"),
      Exception("Error", "") }

Bodies(from) ==
    { FailingBody("unreadable", e) : e \in FetchExceptions }
    \cup { FailingBody("unparseable",
                       Exception("SyntaxError", SyntaxErrorMessage(text, quoted))) :
             text \in UnparseableTexts, quoted \in BOOLEAN }
    \cup { Body("json", altText, error) :
             altText \in {NoVal} \cup NonStrings(from)
                         \cup { Text(n, from) : n \in TextLengths },
             error \in {"", "quota exceeded"} }

\* What FileReader hands to onerror (line 19), by the string it is converted
\* to at lines 59 and 81: a ProgressEvent, or the plain object of a
\* FileReader that is not the browser's.
ReaderErrors == {"[object ProgressEvent]", "[object Object]"}

\* The exception of a fetch aborted by controller.abort() (line 151).
AbortException == Exception("AbortError", "signal is aborted without reason")

(***************************************************************************)
(* generateAltTextViaProxy: the steps, one per await.                      *)
(***************************************************************************)
trackerVars ==
    <<cache, durable, buffer, inflight, idbGets, nSets, nCalls, hookVars,
      lastEv, keyVars>>

\* The promise of generateAltTextViaProxy settles.
Return(result) ==
    /\ aOut' = result
    /\ aPc' = "done"

\* lines 137-178: the main request is sent, with its timeout armed.
SendMain(data) ==
    /\ aData' = data
    /\ aLog' = Append(aLog, Fetch("main", TimeoutDuration(data.size), data.size))
    /\ aPc' = "main"
    /\ UNCHANGED <<aErr, aText, aOut>>

\* lines 128 and 26-38: base64Data and mimeType are taken from a data URL,
\* or getBase64Data throws into the outer catch.
UseDataUrl(src, prefix) ==
    IF DataUrlError(src) # NoVal
    THEN /\ Return(RequestError(prefix \o <<DataUrlError(src).message>>))
         /\ UNCHANGED <<aData, aErr, aText, aLog>>
    ELSE SendMain(Base64Data(src))

\* generateAltTextViaProxy(source, isVideo), up to its first await: with the
\* proxy URL unset the promise it returns is resolved; otherwise it is
\* suspended at line 128, getBase64Data having sent the fetch of an http:,
\* https: or blob: source (lines 42, 64), or having already settled.
AltCall(url, src, isVideo) ==
    /\ aPc = "idle"
    /\ aIn' = [url |-> url, source |-> src, isVideo |-> isVideo]
    /\ IF ~ProxyUrlConfigured(url)
       THEN /\ Return(ConfigurationError)
            /\ UNCHANGED <<aUrl, aLog>>
       ELSE IF src.scheme \in {"http", "https", "blob"}
       THEN /\ aUrl' = src
            /\ aLog' = Append(aLog, Fetch("source", 0, 0))
            /\ aPc' = "source"
            /\ UNCHANGED aOut
       ELSE /\ aUrl' = src
            /\ aPc' = "base64"
            /\ UNCHANGED <<aLog, aOut>>
    /\ UNCHANGED <<aData, aErr, aText, aResp, trackerVars>>

\* lines 59 and 81: the message the catch of getBase64Data puts in front.
SourceErrorPrefix(src) ==
    IF src.scheme = "blob"
    THEN <<"Failed to fetch or process blob URL: ">>
    ELSE <<"Failed to fetch or process media URL: ">>

\* What the catch of getBase64Data (lines 57-60, 79-82) puts in front of the
\* message of an exception thrown while it works on aUrl: nothing when aUrl
\* is the source itself.
ErrorPrefix ==
    IF aIn.source.scheme \in {"http", "https", "blob"}
    THEN SourceErrorPrefix(aIn.source)
    ELSE <<>>

\* line 128 (and lines 56, 78): the await of getBase64Data resumes, in a
\* microtask after the call or after FileReader has finished.  The data URL
\* is taken apart and the main request sent, or the exception of
\* getBase64Data arrives in the outer catch.
AltResumes ==
    /\ aPc = "base64"
    /\ IF aUrl.scheme = "data"
       THEN UseDataUrl(aUrl, ErrorPrefix)
       ELSE /\ Return(RequestError(<<"Background script received an unsupported source type.">>))
            /\ UNCHANGED <<aData, aErr, aText, aLog>>
    /\ UNCHANGED <<aIn, aUrl, aResp, trackerVars>>

\* getBase64Data, lines 42-46 and 64-68: the fetch of the source settles.
\*   rejected: fetch rejects with e;  otherwise it answers with status and
\*   statusText: not OK, lines 44 and 66 throw; OK, response.blob() is
\*   awaited.
AltSourceSettles(rejected, e, status, statusText) ==
    /\ aPc = "source"
    /\ IF rejected
       THEN Return(RequestError(ErrorPrefix \o <<e.message>>))
       ELSE IF ~Ok(Response(status, statusText, NoVal))
       THEN Return(RequestError(
                ErrorPrefix
                \o <<IF aIn.source.scheme = "blob"
                     THEN "Failed to fetch blob URL: " ELSE "Failed to fetch URL: ",
                     ToString(status), " ", statusText>>))
       ELSE /\ aPc' = "blob"
            /\ UNCHANGED aOut
    /\ UNCHANGED <<aIn, aUrl, aData, aErr, aText, aResp, aLog, trackerVars>>

\* lines 47 and 69: response.blob() settles; when it resolves, FileReader is
\* started on the blob (lines 15-22) and awaited (lines 53, 75).
AltBlobSettles(rejected, e) ==
    /\ aPc = "blob"
    /\ IF rejected
       THEN Return(RequestError(ErrorPrefix \o <<e.message>>))
       ELSE /\ aPc' = "reader"
            /\ UNCHANGED aOut
    /\ UNCHANGED <<aIn, aUrl, aData, aErr, aText, aResp, aLog, trackerVars>>

\* lines 15-22, 53 and 75: FileReader finishes.
\*   failed: onerror rejects with event, which is not an Error: the catch of
\*   lines 57-60 / 79-82 puts its conversion to a string in the message;
\*   otherwise onloadend resolves with dataUrl, which getBase64Data is run
\*   on again (lines 56, 78).
AltReaderSettles(failed, event, dataUrl) ==
    /\ aPc = "reader"
    /\ IF failed
       THEN /\ Return(RequestError(ErrorPrefix \o <<event>>))
            /\ UNCHANGED aUrl
       ELSE /\ aUrl' = dataUrl
            /\ aPc' = "base64"
            /\ UNCHANGED aOut
    /\ UNCHANGED <<aIn, aData, aErr, aText, aResp, aLog, trackerVars>>

\* lines 241-309: the catch of the main request, entered with exception e
\* after the network calls of log: the retry is sent, or an error returned.
CatchMain(e, log) ==
    IF IsFailedToFetch(e)
    THEN /\ aErr' = e
         /\ aLog' = Append(log, Fetch("retry", 0, aData.size))
         /\ aPc' = "retry"
         /\ UNCHANGED <<aText, aOut>>
    ELSE /\ aErr' = e
         /\ Return(MainErrorResult(e))
         /\ aLog' = log
         /\ UNCHANGED aText

\* lines 178-200 and 211: the main request settles.
\*   rejected: fetch rejects with e (AbortException when the timeout fired);
\*   otherwise the proxy answers with status and statusText: the error of a
\*   status that needs no body is returned, or proxyResponse.json() awaited.
AltMainSettles(rejected, e, status, statusText) ==
    /\ aPc = "main"
    /\ IF rejected
       THEN /\ CatchMain(e, aLog)
            /\ UNCHANGED aResp
       ELSE LET response == Response(status, statusText, NoVal) IN
            /\ aResp' = response
            /\ IF ~Ok(response) /\ ~StatusReadsBody(status)
               THEN /\ Return(StatusError(response))
                    /\ aLog' = Append(aLog, Answer("main", status))
               ELSE /\ aLog' = aLog \o <<Answer("main", status),
                                         ReadBody("main", "json")>>
                    /\ aPc' = "mainBody"
                    /\ UNCHANGED aOut
            /\ UNCHANGED <<aErr, aText>>
    /\ UNCHANGED <<aIn, aUrl, aData, trackerVars>>

\* lines 200-240: proxyResponse.json() settles, with body: the error of the
\* non-OK response or the alt text is returned, the condensation request
\* sent (lines 224, 345), or the catch entered.
AltMainBody(body) ==
    /\ aPc = "mainBody"
    /\ LET response == [aResp EXCEPT !.body = body] IN
       IF ~Ok(response)
       THEN /\ Return(StatusError(response))
            /\ UNCHANGED <<aErr, aText, aLog>>
       ELSE IF JsonError(body) # NoVal
       THEN CatchMain(JsonError(body), aLog)
       ELSE IF ~HasAltTextString(body)
       THEN /\ Return(InvalidFormatError)
            /\ UNCHANGED <<aErr, aText, aLog>>
       ELSE IF NeedsCondensing(body.altText)
       THEN /\ aText' = body.altText
            /\ aLog' = Append(aLog, Fetch("condense", 0,
                                          SafeOriginalLength(body.altText.len)))
            /\ aPc' = "condense"
            /\ UNCHANGED <<aErr, aOut>>
       ELSE /\ Return(AltTextResult(body.altText))
            /\ UNCHANGED <<aErr, aText, aLog>>
    /\ aResp' = [aResp EXCEPT !.body = body]
    /\ UNCHANGED <<aIn, aUrl, aData, trackerVars>>

\* condenseAltText, lines 345-353 and 362-366, and lines 224-236: the
\* condensation request settles.
\*   rejected: fetch rejects and the truncation is returned; otherwise the
\*   proxy answers and response.json() is awaited, whatever the status.
AltCondenseSettles(rejected, status, statusText) ==
    /\ aPc = "condense"
    /\ IF rejected
       THEN /\ Return(AltTextResult(WithCondensedNote(
                          CondensedText(aText, TRUE, aResp), aIn.isVideo)))
            /\ UNCHANGED <<aResp, aLog>>
       ELSE /\ aResp' = Response(status, statusText, NoVal)
            /\ aLog' = aLog \o <<Answer("condense", status),
                                 ReadBody("condense", "json")>>
            /\ aPc' = "condenseBody"
            /\ UNCHANGED aOut
    /\ UNCHANGED <<aIn, aUrl, aData, aErr, aText, trackerVars>>

\* condenseAltText, lines 353-366, and lines 224-236: response.json()
\* settles, with body, and the alt text is returned.
AltCondenseBody(body) ==
    /\ aPc = "condenseBody"
    /\ Return(AltTextResult(WithCondensedNote(
                  CondensedText(aText, FALSE, [aResp EXCEPT !.body = body]),
                  aIn.isVideo)))
    /\ aResp' = [aResp EXCEPT !.body = body]
    /\ UNCHANGED <<aIn, aUrl, aData, aErr, aText, aLog, trackerVars>>

\* lines 260-274 and 282-285: the retry settles.
\*   rejected: fetch rejects with altError; otherwise the proxy answers and
\*   simpleResponse.text() (not OK) or simpleResponse.json() (OK) is awaited.
AltRetrySettles(rejected, altError, status, statusText) ==
    /\ aPc = "retry"
    /\ IF rejected
       THEN /\ Return(RetryExceptionError(aErr, altError))
            /\ UNCHANGED <<aResp, aLog>>
       ELSE LET response == Response(status, statusText, NoVal) IN
            /\ aResp' = response
            /\ aLog' = aLog \o <<Answer("retry", status),
                                 ReadBody("retry",
                                          IF Ok(response) THEN "json" ELSE "text")>>
            /\ aPc' = "retryBody"
            /\ UNCHANGED aOut
    /\ UNCHANGED <<aIn, aUrl, aData, aErr, aText, trackerVars>>

\* lines 268-285: the body of the answer to the retry has been read.
AltRetryBody(body) ==
    /\ aPc = "retryBody"
    /\ LET response == [aResp EXCEPT !.body = body] IN
       IF ~Ok(response)
       THEN Return(RetryStatusError(aErr, response))
       ELSE IF JsonError(body) # NoVal
       THEN Return(RetryExceptionError(aErr, JsonError(body)))
       ELSE IF HasAltTextString(body)
       THEN Return(AltTextResult(body.altText))
       ELSE Return(RetryInvalidError)
    /\ aResp' = [aResp EXCEPT !.body = body]
    /\ UNCHANGED <<aIn, aUrl, aData, aErr, aText, aLog, trackerVars>>

\* One step of a call of generateAltTextViaProxy, over every argument of the
\* call and every outcome of what it awaits.
NextAlt ==
    \/ \E url \in Urls : \E src \in Sources : \E isVideo \in BOOLEAN :
          AltCall(url, src, isVideo)
    \/ AltResumes
    \/ \E rejected \in BOOLEAN : \E e \in FetchExceptions :
       \E status \in Statuses : \E statusText \in StatusTexts :
          AltSourceSettles(rejected, e, status, statusText)
    \/ \E rejected \in BOOLEAN : \E e \in FetchExceptions :
          AltBlobSettles(rejected, e)
    \/ \E failed \in BOOLEAN : \E event \in ReaderErrors :
       \E dataUrl \in { d \in DataUrls : d.size <= 1 } :
          AltReaderSettles(failed, event, dataUrl)
    \/ \E rejected \in BOOLEAN : \E e \in FetchExceptions \cup {AbortException} :
       \E status \in Statuses : \E statusText \in StatusTexts :
          AltMainSettles(rejected, e, status, statusText)
    \/ \E body \in Bodies("proxy") : AltMainBody(body)
    \/ \E rejected \in BOOLEAN :
       \E status \in Statuses : \E statusText \in StatusTexts :
          AltCondenseSettles(rejected, status, statusText)
    \/ \E body \in Bodies("condensed") : AltCondenseBody(body)
    \/ \E rejected \in BOOLEAN : \E altError \in FetchExceptions :
       \E status \in Statuses : \E statusText \in StatusTexts :
          AltRetrySettles(rejected, altError, status, statusText)
    \/ \E body \in Bodies("retry") : AltRetryBody(body)

SpecAlt == Init /\ [][NextAlt]_vars

(***************************************************************************)
(* Properties of generateAltTextViaProxy (SpecAlt).                        *)
(***************************************************************************)
\* The promise has settled to { altText } / to { error }.
ReturnedAltText == aPc = "done" /\ DOMAIN aOut = {"altText"}

ReturnedError == aPc = "done" /\ DOMAIN aOut = {"error"}

\* The requests for an alt text sent to the proxy: the main one, the retry.
GenerationRequests ==
    SelectSeq(aLog, LAMBDA c : c.op = "fetch" /\ c.kind \in {"main", "retry"})

\* C17 - Alt-text length ceiling: every { altText } generateAltTextViaProxy
\* returns is at most 2000 characters long, whichever path returned it.
C17_LengthCeiling ==
    (ReturnedAltText /\ IsString(aOut.altText))
    => aOut.altText.len <= MAX_ALT_TEXT_LENGTH

\* The retry has been sent.
RetrySent == \E i \in 1..Len(aLog) : aLog[i].op = "fetch" /\ aLog[i].kind = "retry"

\* The message names the failure e of the main request and, after it, the
\* failure of the retry.
Combines(pieces, e) ==
    \E i \in 1..Len(pieces) : pieces[i] = e.message /\ Len(pieces) >= i + 2

\* C18 - Alt-text retry discipline: a network failure of the main request
\* (TypeError, "Failed to fetch") is followed by exactly one retry with the
\* simplified payload; when the retry fails too, the error returned combines
\* the failure of the main request and the failure of the retry; a timeout
\* (AbortError) and every other failure are not retried; one call sends at
\* most two generation requests.
C18_RetryDiscipline ==
    /\ Len(SelectSeq(aLog, LAMBDA c : c.op = "fetch" /\ c.kind = "retry")) <= 1
    /\ Len(GenerationRequests) <= 2
    /\ aErr = NoVal => ~RetrySent
    /\ aErr # NoVal =>
          (RetrySent <=> (aErr.name = "TypeError" /\ aErr.message = "Failed to fetch"))
    /\ (RetrySent /\ ReturnedError) => Combines(aOut.error, aErr)

\* The call has settled after a retry whose fetch was rejected.
RetryRejected ==
    /\ aPc = "done"
    /\ RetrySent
    /\ aLog[Len(aLog)] = Fetch("retry", 0, aData.size)

\* The call has settled after a retry that was answered; aResp is the answer
\* with the body that was read.
RetryAnswered ==
    /\ aPc = "done"
    /\ RetrySent
    /\ aLog[Len(aLog)] \in {ReadBody("retry", "json"), ReadBody("retry", "text")}
    /\ aLog[Len(aLog) - 1] = Answer("retry", aResp.status)

\* The retry was answered OK with a body that parses and has no altText
\* string.
RetryAnsweredInvalid ==
    /\ RetryAnswered
    /\ Ok(aResp)
    /\ aResp.body.kind = "json"
    /\ ~(aResp.body.altText # NoVal /\ IsString(aResp.body.altText))

\* The retry was answered OK with a body json() throws for.
RetryAnsweredUnparsed ==
    /\ RetryAnswered
    /\ Ok(aResp)
    /\ aResp.body.kind \in {"unreadable", "unparseable"}

\* C18 as amended - a failure of the main request that is a TypeError with
\* "Failed to fetch" in its message is followed by exactly one retry; no
\* other failure is retried; one call sends at most two generation requests.
\* When the fetch of the retry is rejected, when the retry is answered not
\* OK, and when it is answered OK with a body json() throws for, the error
\* returned combines the failure of the main request with that of the retry
\* (the exception's message, or the text of the body); when the retry is
\* answered OK with JSON without an altText string, the error returned is
\* the fixed "alt response invalid" message, which names neither failure;
\* when it is answered OK with an altText string, that string is returned.
C18_RetryDisciplineAmended ==
    /\ Len(SelectSeq(aLog, LAMBDA c : c.op = "fetch" /\ c.kind = "retry")) <= 1
    /\ Len(GenerationRequests) <= 2
    /\ aErr = NoVal => ~RetrySent
    /\ aErr # NoVal =>
          (RetrySent <=> (aErr.name = "TypeError" /\ aErr.message = "Failed to fetch"))
    /\ (RetrySent /\ aPc = "done") => RetryRejected \/ RetryAnswered
    /\ RetryRejected =>
          /\ Combines(aOut.error, aErr)
          /\ \E altError \in FetchExceptions :
                aOut = RetryExceptionError(aErr, altError)
    /\ (RetryAnswered /\ ~Ok(aResp)) =>
          /\ Combines(aOut.error, aErr)
          /\ aOut = RetryStatusError(aErr, aResp)
    /\ RetryAnsweredUnparsed =>
          /\ Combines(aOut.error, aErr)
          /\ aOut = RetryExceptionError(aErr, aResp.body.thrown)
    /\ RetryAnsweredInvalid =>
          /\ aOut = RetryInvalidError
          /\ ~Combines(aOut.error, aErr)
    /\ (RetryAnswered /\ Ok(aResp) /\ ~RetryAnsweredUnparsed /\ ~RetryAnsweredInvalid)
       => aOut = AltTextResult(aResp.body.altText)

\* The main request failed with "Failed to fetch", the retry was sent and
\* answered 503: the error returned names both failures.
C18_Witness ==
    /\ aErr = Exception("TypeError", "Failed to fetch")
    /\ Len(GenerationRequests) = 2
    /\ \E i \in 1..Len(aLog) : aLog[i] = Answer("retry", 503)
    /\ ReturnedError
    /\ Combines(aOut.error, aErr)

\* The main request was answered with status and the promise has settled.
MainAnswered(status) ==
    /\ aPc = "done"
    /\ \E i \in 1..Len(aLog) : aLog[i] = Answer("main", status)

\* The body of the answer to the main request has been read.
MainBodyRead ==
    \E i \in 1..Len(aLog) : aLog[i].kind = "main" /\ aLog[i].op \in {"json", "text"}

\* C19 - Alt-text status taxonomy: answered by the proxy with a non-OK
\* status, generateAltTextViaProxy returns the CORS error for 403, the
\* size-limit error for 413 and the transient-server-error message for every
\* status from 500 to 599, in none of these cases reading the body.
C19_StatusTaxonomy ==
    \A status \in Statuses :
        MainAnswered(status) =>
            /\ status = 403 => aOut = CorsError /\ ~MainBodyRead
            /\ status = 413 => aOut = SizeLimitError /\ ~MainBodyRead
            /\ (status >= 500 /\ status <= 599) => aOut = ServerError /\ ~MainBodyRead

\* C19 as amended - answered with a non-OK status, generateAltTextViaProxy
\* returns the CORS error for 403, the size-limit error for 413 and the
\* transient-server-error message for 0, 500 and 502, without reading the
\* body; for every other non-OK status, the other 5xx included, it reads the
\* body and returns the body's error field, else the status text, else a
\* message naming the status; when the body cannot be read as JSON it
\* returns "Request failed (status): statusText".
C19_StatusTaxonomyAmended ==
    \A status \in Statuses :
        (MainAnswered(status) /\ ~(status >= 200 /\ status <= 299)) =>
            /\ status = 403 => aOut = CorsError /\ ~MainBodyRead
            /\ status = 413 => aOut = SizeLimitError /\ ~MainBodyRead
            /\ status \in {0, 500, 502} => aOut = ServerError /\ ~MainBodyRead
            /\ status \notin {403, 413, 0, 500, 502} =>
                  /\ MainBodyRead
                  /\ ReturnedError
                  /\ aOut \notin {CorsError, SizeLimitError, ServerError}
                  /\ aResp.status = status
                  /\ aOut = IF aResp.body.kind \in {"unreadable", "unparseable"}
                            THEN ErrorResult(<<"Request failed (", ToString(status),
                                               "): ", aResp.statusText>>)
                            ELSE IF aResp.body.error # ""
                            THEN ErrorResult(<<aResp.body.error>>)
                            ELSE IF aResp.statusText # ""
                            THEN ErrorResult(<<aResp.statusText>>)
                            ELSE ErrorResult(<<"Proxy request failed with status ",
                                               ToString(status)>>)

\* The proxy answered 503 with an error field in its body: the body was
\* read and its error returned.
C19_Witness ==
    /\ MainAnswered(503)
    /\ MainBodyRead
    /\ aOut = ErrorResult(<<"quota exceeded">>)

\* The main request of the call.
MainRequest == CHOOSE c \in Range(aLog) : c.op = "fetch" /\ c.kind = "main"

MainRequestSent == \E c \in Range(aLog) : c.op = "fetch" /\ c.kind = "main"

\* C20 - Alt-text timeout selection: the timeout of the main request is 180
\* seconds for a payload under the threshold of 4,000,000 characters and 300
\* seconds for a payload at or above it, exactly at the threshold included.
C20_TimeoutSelection ==
    MainRequestSent =>
        /\ MainRequest.size < 4000000 => MainRequest.timeout = 180000
        /\ MainRequest.size >= 4000000 => MainRequest.timeout = 300000

\* C20 as amended - the timeout of the main request is 300 seconds for a
\* payload above 4,000,000 characters and 180 seconds for a payload of
\* 4,000,000 characters or fewer.
C20_TimeoutSelectionAmended ==
    MainRequestSent =>
        /\ MainRequest.size <= 4000000 => MainRequest.timeout = 180000
        /\ MainRequest.size > 4000000 => MainRequest.timeout = 300000

\* The main request was sent with a payload of exactly 4,000,000 characters
\* and the timeout of 180 seconds.
C20_Witness ==
    /\ MainRequestSent
    /\ MainRequest.size = 4000000
    /\ MainRequest.timeout = 180000

(***************************************************************************)
(* Quiescence of the cache (SpecCache).                                    *)
(***************************************************************************)
\* No get / getBatch is in flight and every buffered write is committed.
Quiescent == inflight = <<>> /\ buffer = <<>>

\* C21 - The Map and the durable store converge at quiescence: with no get
\* or getBatch in flight and every buffered write committed, every key that
\* has been set holds in the Map the value the durable store holds, the value
\* of its most recent set; no interleaving of set with cold reads in flight
\* leaves the Map with absent or an older value.
C21_ConvergeAtQuiescence ==
    Quiescent
    => \A k \in Keys :
          HasBeenSet(k) => /\ MapHas(cache, k)
                           /\ cache[k] = durable[k]
                           /\ cache[k] = LastSet(k)

(***************************************************************************)
(* Totality of generateAltTextViaProxy (SpecAlt).                          *)
(***************************************************************************)
\* Every call the function awaits settles: the fetches, the reading of the
\* bodies and of the blob, FileReader; the resumption of line 128 is a
\* microtask.
SpecAltFair == Init /\ [][NextAlt]_vars /\ WF_vars(NextAlt)

\* The promise has resolved to exactly one of { altText } and { error }.
ResolvedToOneShape ==
    /\ aOut # Rejected
    /\ DOMAIN aOut = {"altText"} \/ DOMAIN aOut = {"error"}

\* C22 - generateAltTextViaProxy is total: for every source and every
\* outcome of the calls it awaits, the promise it returned settles, it
\* resolves to exactly one of { altText } and { error } and never rejects;
\* with the proxy URL unset it has resolved to the configuration error when
\* the call returns, without any HTTP request.
C22_Total ==
    /\ [](aPc = "done" => ResolvedToOneShape)
    /\ [](aPc # "done" => aOut = NoVal)
    /\ []((aIn # NoVal /\ aIn.url = UrlUnset) =>
            /\ aPc = "done"
            /\ aOut = ConfigurationError
            /\ aLog = <<>>)
    /\ (aPc # "idle") ~> (aPc = "done")

\* The main request was answered 200 with the text "Payload Too Large", which
\* json() throws a SyntaxError for that quotes the text: the promise
\* resolved to the size-limit error.
C22_Witness ==
    /\ MainAnswered(200)
    /\ aResp.body.kind = "unparseable"
    /\ aErr = Exception("SyntaxError",
                        SyntaxErrorMessage("Payload Too Large", TRUE))
    /\ aOut = SizeLimitError

====
